---- MODULE Spec2Model ----
(***************************************************************************)
(* Verification model of duplicates-finder.                                *)
(*                                                                         *)
(*  - UndoSystem (utils/undo-system.ts): the in-memory undo log, the       *)
(*    persisted undo-history.json, the backup directory and the user's     *)
(*    files, with every filesystem call able to fail the way the code's    *)
(*    try/catch blocks expect.                                             *)
(*  - DuplicateDetector / FolderComparer: the three grouping passes as     *)
(*    operators over a scan result.                                        *)
(***************************************************************************)
EXTENDS Integers, Sequences, FiniteSets, TLC

VARIABLES
    fs,          \* user files: path -> content, or Absent
    backups,     \* files of ~/.duplicates-finder/backups: backup path -> content, or Absent
    operations,  \* UndoSystem.operations (in memory)
    disk,        \* parsed-back view is Parse(disk): text of undo-history.json
    now,         \* the wall clock, in milliseconds (Date.now / new Date)
    nextId,      \* the next value generateOperationId produces
    last,        \* what the last call did and returned to its caller
    track,       \* per generated id: what has become of it (history variable)
    faults,      \* I/O errors met so far (EACCES, ENOSPC, EIO, ...; not a missing file)
    prevOps,     \* operations of the previous instance when a new one was constructed
    scanFiles,   \* DuplicateDetector.files
    scanDirs,    \* DuplicateDetector.directories
    tree,        \* the directory tree the folder pass reads
    groups,      \* result of detectDuplicates
    dpc,         \* position of the run: scan, then detection
    scanOptions, \* FileScanner.scanOptions
    filePaths,   \* the paths getFilePathsNative returned, each with what is on disk there
    built,       \* per tree: the structureHash buildFolderStructure gave each directory
    edited,      \* the file whose content was changed between the two builds
    query,       \* a GitignoreParser's rules and the arguments of a shouldIgnore call
    verdict,     \* what that shouldIgnore call returned
    calls,       \* the UndoSystem calls in flight, each with its locals and position
    stack        \* the scanDirectory calls in progress, outermost first

undoVars == <<fs, backups, operations, disk, now, nextId, last, track, faults, prevOps>>
detectVars == <<scanFiles, scanDirs, tree, groups, dpc, scanOptions, filePaths,
                built, edited>>
moreVars == <<query, verdict, calls, stack>>
vars == <<fs, backups, operations, disk, now, nextId, last, track, faults, prevOps,
          scanFiles, scanDirs, tree, groups, dpc, scanOptions, filePaths,
          built, edited, query, verdict, calls, stack>>

----------------------------------------------------------------------------
(* Bounds *)

\* number of recordOperation calls (ids generated) in a run
MaxOps == 2
\* the clock runs from 0 to MaxClock milliseconds
MaxClock == 1
\* number of filesystem calls in a run that fail with an I/O error
MaxFaults == 1

----------------------------------------------------------------------------
(* Values *)

Paths == {"a/x", "b/x"}
Names == {"x"}
Contents == {"c1", "c2"}
Absent == "absent"
NoPath == "none"
NoBackup == <<>>
\* ScanOptions.maxDepth left undefined; a set maxDepth m is <<m>>
NoDepth == <<>>

\* path.basename
Basename(p) == "x"

\* DuplicateAction
DELETE == "delete"
MOVE == "move"
RENAME == "rename"
KEEP == "keep"
DuplicateAction == {KEEP, DELETE, MOVE, RENAME}

Times == 0..MaxClock
Ids == 1..MaxOps
BackupPaths == Times \X Names

FileState == Contents \cup {Absent}

----------------------------------------------------------------------------
(* UndoSystem: helpers *)

\* What a call was asked and what it handed back: op is the method, ok its result
\* (TRUE for a resolved promise / true, FALSE for a rejection / false), id the id
\* returned or asked for, path the originalPath a recordOperation was given,
\* failed the backup paths whose unlink threw in clearHistory.
Outcome(op, ok, id, path, failed) ==
    [op |-> op, ok |-> ok, id |-> id, path |-> path, failed |-> failed]

\* the world moved, no call was made
NoCall == Outcome("env", TRUE, 0, NoPath, {})

\* JSON.stringify of one entry: the Date becomes its ISO string
ToJSON(e) == [e EXCEPT !.timestamp = <<"iso", e.timestamp>>]

\* one parsed entry with the timestamp string turned back into a Date
FromJSON(j) == [j EXCEPT !.timestamp = j.timestamp[2]]

\* JSON.stringify(this.operations, null, 2)
Serialize(ops) == [i \in 1..Len(ops) |-> ToJSON(ops[i])]

\* JSON.parse(historyData).map(...)
Parse(text) == [i \in 1..Len(text) |-> FromJSON(text[i])]

\* saveHistory: writes the file, and swallows a failed write
saveHistory(ops, writeOk) == IF writeOk THEN Serialize(ops) ELSE disk

\* this.operations.findIndex(op => op.id === operationId); 0 stands for -1
findIndex(ops, id) ==
    IF \E i \in 1..Len(ops) : ops[i].id = id
    THEN CHOOSE i \in 1..Len(ops) :
            /\ ops[i].id = id
            /\ \A j \in 1..(i - 1) : ops[j].id # id
    ELSE 0

\* this.operations.splice(index, 1)
splice(ops, index) ==
    [i \in 1..(Len(ops) - 1) |-> IF i < index THEN ops[i] ELSE ops[i + 1]]

\* createBackup: the backup path, <timestamp>_<basename> under the backup directory
backupPathOf(filePath, t) == <<t, Basename(filePath)>>

\* a createBackup that swallows the error of its copyFile
createBackupNeverThrows(filePath, copyOk) == TRUE

\* createBackup runs to its return: its fs.copyFile did not throw
createBackupCompletes(filePath, copyOk) == fs[filePath] # Absent /\ copyOk

\* the backup paths the entries of a log name
Referenced(ops) == {ops[i].backupPath : i \in 1..Len(ops)} \ {NoBackup}

IdsOf(ops) == {ops[i].id : i \in 1..Len(ops)}

EntryOf(ops, id) == ops[findIndex(ops, id)]

UndoFrame == UNCHANGED detectVars /\ UNCHANGED moreVars

\* the I/O errors of one call: each flag is FALSE for a call that fails
Failing(flags) == Cardinality({i \in 1..Len(flags) : ~flags[i]})

\* n more I/O errors fit the run
Inject(n) ==
    /\ faults + n <= MaxFaults
    /\ faults' = faults + n

----------------------------------------------------------------------------
(* UndoSystem: operations *)

\* recordOperation. copyOk: fs.copyFile of createBackup meets no I/O error (it
\* fails anyway when the source is missing); writeOk: the write of saveHistory
\* succeeds.
recordOperation(action, originalPath, newPath, copyOk, writeOk) ==
    /\ nextId <= MaxOps
    /\ ~copyOk => action = DELETE /\ fs[originalPath] # Absent
    /\ ~writeOk => (action = DELETE => fs[originalPath] # Absent /\ copyOk)
    /\ Inject(Failing(<<copyOk, writeOk>>))
    /\ LET id == nextId
           backupPath == backupPathOf(originalPath, now)
           copied == createBackupCompletes(originalPath, copyOk)
           undoOp == [id |-> id,
                      timestamp |-> now,
                      action |-> action,
                      originalPath |-> originalPath,
                      backupPath |-> IF action = DELETE THEN backupPath ELSE NoBackup,
                      newPath |-> newPath]
       IN  /\ nextId' = nextId + 1
           /\ IF action = DELETE /\ ~copied
              THEN \* createBackup throws: the call rejects before the push
                   /\ last' = Outcome("record", FALSE, 0, originalPath, {})
                   /\ track' = [track EXCEPT ![id] = "aborted"]
                   /\ UNCHANGED <<fs, backups, operations, disk>>
              ELSE /\ backups' = IF action = DELETE
                                 THEN [backups EXCEPT ![backupPath] = fs[originalPath]]
                                 ELSE backups
                   /\ operations' = Append(operations, undoOp)
                   /\ disk' = saveHistory(operations', writeOk)
                   /\ last' = Outcome("record", TRUE, id, originalPath, {})
                   /\ track' = [track EXCEPT ![id] = "live"]
                   /\ UNCHANGED fs
    /\ UNCHANGED <<now, prevOps>>
    /\ UndoFrame

\* the filesystem call undoOperation makes for an entry: "copy", "rename" or "none"
reversalOf(op) ==
    CASE op.action = DELETE /\ op.backupPath # NoBackup -> "copy"
      [] op.action \in {MOVE, RENAME} /\ op.newPath # NoPath -> "rename"
      [] OTHER -> "none"

\* a reversal that does not notice its source is missing
sourceAssumed(op) == TRUE

\* whether the file that reversal reads is there
sourcePresent(op) ==
    CASE reversalOf(op) = "copy" -> backups[op.backupPath] # Absent
      [] reversalOf(op) = "rename" -> fs[op.newPath] # Absent
      [] OTHER -> TRUE

\* the user's files after the reversal has succeeded
reversed(op) ==
    CASE reversalOf(op) = "copy" ->
            [fs EXCEPT ![op.originalPath] = backups[op.backupPath]]
      [] reversalOf(op) = "rename" ->
            [p \in Paths |->
                IF p = op.originalPath THEN fs[op.newPath]
                ELSE IF p = op.newPath THEN Absent
                ELSE fs[p]]
      [] OTHER -> fs

\* undoOperation. ioOk: the copyFile / rename meets no I/O error (it fails anyway
\* when its source is missing); writeOk: the write of saveHistory succeeds.
undoOperation(operationId, ioOk, writeOk) ==
    LET operationIndex == findIndex(operations, operationId)
        reverses == /\ operationIndex # 0
                    /\ reversalOf(operations[operationIndex]) # "none"
                    /\ sourcePresent(operations[operationIndex])
        saves == /\ operationIndex # 0
                 /\ operations[operationIndex].action \in {DELETE, MOVE, RENAME}
                 /\ reversalOf(operations[operationIndex]) # "none" => reverses /\ ioOk
    IN  /\ ~ioOk => reverses
        /\ ~writeOk => saves
        /\ Inject(Failing(<<ioOk, writeOk>>))
        /\ IF operationIndex = 0
           THEN /\ last' = Outcome("undo", FALSE, operationId, NoPath, {})
                /\ UNCHANGED <<fs, operations, disk, track>>
           ELSE LET operation == operations[operationIndex]
                IN  IF operation.action \notin {DELETE, MOVE, RENAME}
                    THEN \* default: cannot undo this operation type
                         /\ last' = Outcome("undo", FALSE, operationId, NoPath, {})
                         /\ UNCHANGED <<fs, operations, disk, track>>
                    ELSE IF reversalOf(operation) # "none"
                            /\ ~(sourcePresent(operation) /\ ioOk)
                    THEN \* the filesystem call throws: caught, false
                         /\ last' = Outcome("undo", FALSE, operationId, NoPath, {})
                         /\ track' = IF sourcePresent(operation) THEN track
                                     ELSE [track EXCEPT ![operationId] = "retry"]
                         /\ UNCHANGED <<fs, operations, disk>>
                    ELSE /\ fs' = reversed(operation)
                         /\ operations' = splice(operations, operationIndex)
                         /\ disk' = saveHistory(operations', writeOk)
                         /\ last' = Outcome("undo", TRUE, operationId, NoPath, {})
                         /\ track' = [track EXCEPT ![operationId] =
                                        IF @ = "retry" THEN "retried" ELSE "undone"]
        /\ UNCHANGED <<backups, now, nextId, prevOps>>
        /\ UndoFrame

\* clearHistory. unlinkFails: the backup paths whose unlink meets an I/O error (an
\* unlink of a missing file fails anyway); writeOk: the write of saveHistory succeeds.
clearHistory(unlinkFails, writeOk) ==
    /\ unlinkFails \subseteq {b \in Referenced(operations) : backups[b] # Absent}
    /\ Inject(Cardinality(unlinkFails) + Failing(<<writeOk>>))
    /\ backups' = [b \in BackupPaths |->
                      IF b \in Referenced(operations) /\ b \notin unlinkFails
                      THEN Absent ELSE backups[b]]
    /\ operations' = <<>>
    /\ disk' = saveHistory(operations', writeOk)
    /\ last' = Outcome("clear", TRUE, 0, NoPath,
                       unlinkFails \cup {b \in Referenced(operations) : backups[b] = Absent})
    /\ track' = [i \in Ids |-> IF i \in IdsOf(operations) THEN "cleared" ELSE track[i]]
    /\ UNCHANGED <<fs, now, nextId, prevOps>>
    /\ UndoFrame

\* insert entry e into a list that is sorted newest first, behind the entries
\* that are not older
RECURSIVE insertByAge(_, _)
insertByAge(e, sorted) ==
    IF sorted = <<>> THEN <<e>>
    ELSE IF Head(sorted).timestamp >= e.timestamp
         THEN <<Head(sorted)>> \o insertByAge(e, Tail(sorted))
    ELSE <<e>> \o sorted

\* ops.sort((a, b) => b.timestamp.getTime() - a.timestamp.getTime()): the
\* entries newest first, entries of one timestamp in the order they had
RECURSIVE sortNewestFirst(_)
sortNewestFirst(ops) ==
    IF ops = <<>> THEN <<>>
    ELSE insertByAge(ops[Len(ops)], sortNewestFirst(SubSeq(ops, 1, Len(ops) - 1)))

\* ops.slice(0, limit)
slice(ops, limit) == SubSeq(ops, 1, IF limit < Len(ops) THEN limit ELSE Len(ops))

\* the default of getRecentOperations' limit
DefaultLimit == 10

\* getRecentOperations: Array.prototype.sort sorts this.operations itself and
\* returns it; the caller gets the first limit entries of it
getRecentOperations(limit) ==
    /\ operations' = sortNewestFirst(operations)
    /\ last' = Outcome("recent", TRUE, 0, NoPath, {})
                    @@ [limit |-> limit, result |-> slice(operations', limit)]
    /\ UNCHANGED <<fs, backups, disk, now, nextId, track, faults, prevOps>>
    /\ UndoFrame

\* constructor: a new UndoSystem object over the same home directory
newInstance ==
    /\ prevOps' = operations
    /\ operations' = <<>>
    /\ last' = Outcome("new", TRUE, 0, NoPath, {})
    /\ UNCHANGED <<fs, backups, disk, now, nextId, track, faults>>
    /\ UndoFrame

\* loadHistory, as initialize calls it. readOk: readFile and JSON.parse succeed;
\* any failure is caught and leaves an empty history.
loadHistory(readOk) == IF readOk THEN Parse(disk) ELSE <<>>

\* initialize. mkdirOk: the mkdir of the backup directory succeeds; when it throws,
\* the catch of initialize skips loadHistory.
initialize(mkdirOk, readOk) ==
    /\ ~readOk => mkdirOk
    /\ Inject(Failing(<<mkdirOk, readOk>>))
    /\ operations' = IF mkdirOk THEN loadHistory(readOk) ELSE operations
    /\ last' = Outcome("init", TRUE, 0, NoPath, {})
    /\ UNCHANGED <<fs, backups, disk, now, nextId, track, prevOps>>
    /\ UndoFrame

----------------------------------------------------------------------------
(* The world around the UndoSystem: the clock, and the files as the caller    *)
(* of recordOperation (the mutation executor) and the user change them        *)

Tick ==
    /\ now < MaxClock
    /\ now' = now + 1
    /\ last' = NoCall
    /\ UNCHANGED <<fs, backups, operations, disk, nextId, track, faults, prevOps>>
    /\ UndoFrame

\* a file is written at p (a move's destination, a file created anew)
FileWritten(p, c) ==
    /\ fs[p] # c
    /\ fs' = [fs EXCEPT ![p] = c]
    /\ last' = NoCall
    /\ UNCHANGED <<backups, operations, disk, now, nextId, track, faults, prevOps>>
    /\ UndoFrame

\* the file at p is removed (the delete itself, a move's source)
FileRemoved(p) ==
    /\ fs[p] # Absent
    /\ fs' = [fs EXCEPT ![p] = Absent]
    /\ last' = NoCall
    /\ UNCHANGED <<backups, operations, disk, now, nextId, track, faults, prevOps>>
    /\ UndoFrame

\* a backup file is removed from the backup directory by hand
BackupRemoved(b) ==
    /\ backups[b] # Absent
    /\ backups' = [backups EXCEPT ![b] = Absent]
    /\ last' = NoCall
    /\ UNCHANGED <<fs, operations, disk, now, nextId, track, faults, prevOps>>
    /\ UndoFrame

----------------------------------------------------------------------------
(* Specifications of the UndoSystem *)

\* no shouldIgnore call was made, no UndoSystem call is in flight, no walk is going on
MoreIdle ==
    /\ query = <<>>
    /\ verdict = "none"
    /\ calls = <<>>
    /\ stack = <<>>

\* ScanOptions with no ignore pattern and no depth limit
DefaultOptions ==
    [ignorePatterns |-> {}, includeHidden |-> FALSE, maxDepth |-> NoDepth,
     followSymlinks |-> FALSE]

DetectIdle ==
    /\ scanFiles = <<>>
    /\ scanDirs = <<>>
    /\ tree = <<>>
    /\ groups = <<>>
    /\ dpc = "idle"
    /\ scanOptions = DefaultOptions
    /\ filePaths = <<>>
    /\ built = <<>>
    /\ edited = <<>>
    /\ MoreIdle

UndoStart ==
    /\ backups = [b \in BackupPaths |-> Absent]
    /\ operations = <<>>
    /\ disk = <<>>
    /\ now = 0
    /\ nextId = 1
    /\ last = Outcome("new", TRUE, 0, NoPath, {})
    /\ track = [i \in Ids |-> "unused"]
    /\ faults = 0
    /\ prevOps = <<>>

Init ==
    /\ fs \in [Paths -> FileState]
    /\ UndoStart
    /\ DetectIdle

\* the newPath values a caller passes with an action
NewPaths(action, originalPath) ==
    IF action \in {MOVE, RENAME} THEN (Paths \ {originalPath}) \cup {NoPath}
    ELSE {NoPath}

Record ==
    \E action \in DuplicateAction, originalPath \in Paths :
        \E newPath \in NewPaths(action, originalPath), copyOk \in BOOLEAN, writeOk \in BOOLEAN :
            recordOperation(action, originalPath, newPath, copyOk, writeOk)

Undo ==
    \E operationId \in Ids, ioOk \in BOOLEAN, writeOk \in BOOLEAN :
        undoOperation(operationId, ioOk, writeOk)

Clear ==
    \E unlinkFails \in SUBSET BackupPaths, writeOk \in BOOLEAN :
        clearHistory(unlinkFails, writeOk)

Recent == \E limit \in {1, DefaultLimit} : getRecentOperations(limit)

World ==
    \/ Tick
    \/ \E p \in Paths, c \in Contents : FileWritten(p, c)
    \/ \E p \in Paths : FileRemoved(p)
    \/ \E b \in BackupPaths : BackupRemoved(b)

\* one UndoSystem instance at work
Next == Record \/ Undo \/ Clear \/ Recent \/ World

Spec == Init /\ [][Next]_vars

\* The tool invoked again and again: each invocation constructs its UndoSystem
\* and may initialize it. The user's files are left alone in between: the log and
\* its file are what is followed here.
InitRestart ==
    /\ fs = [p \in Paths |-> IF p = "a/x" THEN "c1" ELSE "c2"]
    /\ UndoStart
    /\ DetectIdle

Initialize == \E mkdirOk \in BOOLEAN, readOk \in BOOLEAN : initialize(mkdirOk, readOk)

NextRestart == Record \/ Undo \/ Clear \/ Tick \/ newInstance \/ Initialize

SpecRestart == InitRestart /\ [][NextRestart]_vars

----------------------------------------------------------------------------
(* UndoSystem: calls in flight. Each method is an async function: it runs     *)
(* from one await to the next without interruption, and at an await any      *)
(* other call may start or go on. The filesystem performs a requested        *)
(* operation at some moment between the request and the continuation.        *)

\* number of UndoSystem calls in flight at a time
MaxCalls == 2

\* a slot with no call in it
IdleCall ==
    [pc |-> "idle", method |-> "none", id |-> 0, index |-> 0, entry |-> <<>>,
     ok |-> TRUE, text |-> <<>>]

\* this.operations.splice(index, 1) for any index: nothing is removed when
\* the index is beyond the last entry
spliceAt(ops, index) == IF index > Len(ops) THEN ops ELSE splice(ops, index)

AsyncFrame ==
    /\ UNCHANGED detectVars
    /\ UNCHANGED <<query, verdict, stack>>
    /\ UNCHANGED <<now, faults, prevOps>>

\* undoOperation(operationId) up to its first await: findIndex, the switch, and
\* the request of the copyFile or rename; without a path to reverse it goes on
\* to the splice and into saveHistory
undoStart(c, operationId) ==
    /\ calls[c].pc = "idle"
    /\ LET operationIndex == findIndex(operations, operationId)
       IN  IF operationIndex = 0
              \/ operations[operationIndex].action \notin {DELETE, MOVE, RENAME}
           THEN /\ last' = Outcome("undo", FALSE, operationId, NoPath, {})
                /\ UNCHANGED <<operations, calls>>
           ELSE LET operation == operations[operationIndex]
                    call == [IdleCall EXCEPT !.method = "undo", !.id = operationId,
                                             !.index = operationIndex,
                                             !.entry = operation]
                IN  IF reversalOf(operation) = "none"
                    THEN /\ operations' = splice(operations, operationIndex)
                         /\ calls' = [calls EXCEPT ![c] = [call EXCEPT !.pc = "mkdir"]]
                         /\ UNCHANGED last
                    ELSE /\ calls' = [calls EXCEPT ![c] = [call EXCEPT !.pc = "io"]]
                         /\ UNCHANGED <<operations, last>>
    /\ UNCHANGED <<fs, backups, disk, nextId, track>>
    /\ AsyncFrame

\* recordOperation(operation) up to its first await: the entry is built, then
\* for a Delete createBackup requests its copyFile, and for the other actions
\* the entry is pushed and saveHistory entered
recordStart(c, action, originalPath, newPath) ==
    /\ calls[c].pc = "idle"
    /\ nextId <= MaxOps
    /\ LET undoOp == [id |-> nextId,
                      timestamp |-> now,
                      action |-> action,
                      originalPath |-> originalPath,
                      backupPath |-> NoBackup,
                      newPath |-> newPath]
           call == [IdleCall EXCEPT !.method = "record", !.id = nextId]
       IN  IF action = DELETE
           THEN /\ calls' = [calls EXCEPT ![c] =
                                [call EXCEPT !.pc = "io",
                                             !.entry = [undoOp EXCEPT !.backupPath =
                                                          backupPathOf(originalPath, now)]]]
                /\ UNCHANGED <<operations, track>>
           ELSE /\ operations' = Append(operations, undoOp)
                /\ track' = [track EXCEPT ![nextId] = "live"]
                /\ calls' = [calls EXCEPT ![c] = [call EXCEPT !.pc = "mkdir",
                                                               !.entry = undoOp]]
    /\ nextId' = nextId + 1
    /\ UNCHANGED <<fs, backups, disk, last>>
    /\ AsyncFrame

\* the filesystem performs the copyFile or rename a call is waiting for
ioEffect(c) ==
    /\ calls[c].pc = "io"
    /\ LET e == calls[c].entry
       IN  IF calls[c].method = "undo"
           THEN IF sourcePresent(e)
                THEN /\ fs' = reversed(e)
                     /\ track' = [track EXCEPT ![e.id] =
                                    IF @ = "live" THEN "undone" ELSE "twice"]
                     /\ calls' = [calls EXCEPT ![c].pc = "ioDone", ![c].ok = TRUE]
                     /\ UNCHANGED backups
                ELSE /\ calls' = [calls EXCEPT ![c].pc = "ioDone", ![c].ok = FALSE]
                     /\ UNCHANGED <<fs, backups, track>>
           ELSE IF fs[e.originalPath] # Absent
                THEN /\ backups' = [backups EXCEPT ![e.backupPath] = fs[e.originalPath]]
                     /\ calls' = [calls EXCEPT ![c].pc = "ioDone", ![c].ok = TRUE]
                     /\ UNCHANGED <<fs, track>>
                ELSE /\ calls' = [calls EXCEPT ![c].pc = "ioDone", ![c].ok = FALSE]
                     /\ UNCHANGED <<fs, backups, track>>
    /\ UNCHANGED <<operations, disk, nextId, last>>
    /\ AsyncFrame

\* the call goes on after its copyFile or rename: undoOperation splices at the
\* index it found before the await, recordOperation pushes its entry; both
\* enter saveHistory. A failed operation ends the call.
ioResume(c) ==
    /\ calls[c].pc = "ioDone"
    /\ IF ~calls[c].ok
       THEN /\ calls' = [calls EXCEPT ![c] = IdleCall]
            /\ last' = Outcome(calls[c].method, FALSE,
                                IF calls[c].method = "undo" THEN calls[c].id ELSE 0,
                                IF calls[c].method = "undo" THEN NoPath
                                ELSE calls[c].entry.originalPath, {})
            /\ UNCHANGED <<operations, track>>
       ELSE /\ calls' = [calls EXCEPT ![c].pc = "mkdir"]
            /\ UNCHANGED last
            /\ IF calls[c].method = "undo"
               THEN /\ operations' = spliceAt(operations, calls[c].index)
                    /\ UNCHANGED track
               ELSE /\ operations' = Append(operations, calls[c].entry)
                    /\ track' = [track EXCEPT ![calls[c].id] = "live"]
    /\ UNCHANGED <<fs, backups, disk, nextId>>
    /\ AsyncFrame

\* saveHistory goes on after its mkdir: JSON.stringify(this.operations) is
\* evaluated and the writeFile requested
mkdirResume(c) ==
    /\ calls[c].pc = "mkdir"
    /\ calls' = [calls EXCEPT ![c].pc = "write", ![c].text = Serialize(operations)]
    /\ UNCHANGED <<fs, backups, operations, disk, nextId, last, track>>
    /\ AsyncFrame

\* the writeFile is performed, saveHistory returns and the call with it
writeDone(c) ==
    /\ calls[c].pc = "write"
    /\ disk' = calls[c].text
    /\ calls' = [calls EXCEPT ![c] = IdleCall]
    /\ last' = Outcome(calls[c].method, TRUE, calls[c].id,
                        IF calls[c].method = "undo" THEN NoPath
                        ELSE calls[c].entry.originalPath, {})
    /\ UNCHANGED <<fs, backups, operations, nextId, track>>
    /\ AsyncFrame

\* getRecentOperations has no await: it runs in one piece, between the pieces
\* of the calls in flight
recentBetween ==
    /\ operations' = sortNewestFirst(operations)
    /\ last' = Outcome("recent", TRUE, 0, NoPath, {})
                    @@ [limit |-> DefaultLimit,
                        result |-> slice(operations', DefaultLimit)]
    /\ UNCHANGED <<fs, backups, disk, nextId, track, calls>>
    /\ AsyncFrame

\* the clock advances while calls are in flight
tickBetween ==
    /\ now < MaxClock
    /\ now' = now + 1
    /\ UNCHANGED <<fs, backups, operations, disk, nextId, last, track, faults, prevOps,
                   calls>>
    /\ UNCHANGED detectVars
    /\ UNCHANGED <<query, verdict, stack>>

InitAsync ==
    /\ fs = [p \in Paths |-> IF p = "a/x" THEN "c1" ELSE "c2"]
    /\ UndoStart
    /\ scanFiles = <<>>
    /\ scanDirs = <<>>
    /\ tree = <<>>
    /\ groups = <<>>
    /\ dpc = "idle"
    /\ scanOptions = DefaultOptions
    /\ filePaths = <<>>
    /\ built = <<>>
    /\ edited = <<>>
    /\ query = <<>>
    /\ verdict = "none"
    /\ stack = <<>>
    /\ calls = [c \in 1..MaxCalls |-> IdleCall]

NextAsync ==
    \/ \E c \in 1..MaxCalls, operationId \in Ids : undoStart(c, operationId)
    \/ \E c \in 1..MaxCalls, action \in {DELETE, MOVE}, originalPath \in Paths :
          \E newPath \in NewPaths(action, originalPath) :
              recordStart(c, action, originalPath, newPath)
    \/ \E c \in 1..MaxCalls : ioEffect(c)
    \/ \E c \in 1..MaxCalls : ioResume(c)
    \/ \E c \in 1..MaxCalls : mkdirResume(c)
    \/ \E c \in 1..MaxCalls : writeDone(c)
    \/ recentBetween
    \/ tickBetween

SpecAsync == InitAsync /\ [][NextAsync]_vars

----------------------------------------------------------------------------
(* DuplicateDetector and FolderComparer *)

\* number of files and directories in a scan result
MaxEntries == 4

\* DuplicateType
NAME_BASED == "name-based"
CONTENT_BASED == "content-based"
FOLDER_BASED == "folder-based"

\* FileMetadata.hash left undefined
NoHash == <<>>
\* base names of scanned files; two of them differ in case only
FileNames == {"x", "X"}

\* what a regular file holds: "empty" is a zero-byte file, "locked" and "locked2"
\* are files whose bytes cannot be read
ScanContents == {"empty", "c1", "c2"}
TreeContents == {"c1", "locked", "locked2"}

\* stats.size of a file with that content
SizeOf(c) == CASE c = "empty" -> 0 [] c = "c1" -> 1 [] c = "locked" -> 1 [] OTHER -> 2

\* sha256 of the content, as hex digest
HashOf(c) == <<"sha256", c>>

\* a scan that fingerprints every file
needsHashAlways(size) == TRUE

\* scan: if (metadata.size > 0)
needsHash(size) == size > 0

\* FileMetadata of a regular file as FileScanner.scan builds it: the hash is
\* set for a non-empty file only
ScannedFile(name, c) ==
    [name |-> name, size |-> SizeOf(c), isDirectory |-> FALSE,
     hash |-> IF needsHash(SizeOf(c)) THEN HashOf(c) ELSE NoHash]

ScannedFiles == {ScannedFile(n, c) : n \in FileNames, c \in ScanContents}

\* a directory on disk: its listing in readdir order, or unreadable
Unreadable == [readable |-> FALSE, entries |-> <<>>]
Listing(entries) == [readable |-> TRUE, entries |-> entries]
FileEntry(c) == [name |-> "f", kind |-> "file", content |-> c, sub |-> Unreadable]
DirEntry(d) == [name |-> "s", kind |-> "dir", content |-> "empty", sub |-> d]

\* the directories below a scanned directory
LeafDirs == {Unreadable, Listing(<<>>)}

\* the directories a scan lists
DirValues ==
    {Unreadable, Listing(<<>>)}
    \cup {Listing(<<FileEntry(c)>>) : c \in TreeContents}
    \cup {Listing(<<DirEntry(d)>>) : d \in LeafDirs}
    \cup {Listing(<<FileEntry(c), DirEntry(d)>>) : c \in TreeContents, d \in LeafDirs}
    \cup {Listing(<<DirEntry(d), FileEntry(c)>>) : c \in TreeContents, d \in LeafDirs}

\* the order of entry names as strings
NameRank(n) ==
    CASE n = ".gitignore" -> 1 [] n = "X" -> 2 [] n = "a" -> 3 [] n = "build" -> 4
      [] n = "d" -> 5 [] n = "f" -> 6 [] n = "g" -> 7 [] n = "keep.txt" -> 8
      [] n = "s" -> 9 [] OTHER -> 10

\* p < q for relative paths, as Array.prototype.sort orders their strings
RECURSIVE PathLess(_, _)
PathLess(p, q) ==
    IF q = <<>> THEN FALSE
    ELSE IF p = <<>> THEN TRUE
    ELSE IF NameRank(Head(p)) # NameRank(Head(q))
         THEN NameRank(Head(p)) < NameRank(Head(q))
    ELSE PathLess(Tail(p), Tail(q))

\* insert one [key, value] pair into a sorted list of pairs
RECURSIVE InsertSorted(_, _)
InsertSorted(e, sorted) ==
    IF sorted = <<>> THEN <<e>>
    ELSE IF PathLess(e[1], Head(sorted)[1]) THEN <<e>> \o sorted
    ELSE <<Head(sorted)>> \o InsertSorted(e, Tail(sorted))

\* entries left in insertion order
KeepOrder(entries) == entries

\* Array.from(map.entries()).sort()
RECURSIVE SortEntries(_)
SortEntries(entries) ==
    IF entries = <<>> THEN <<>>
    ELSE InsertSorted(Head(entries), SortEntries(Tail(entries)))

\* Sum and maximum of the sizes of a list of FileMetadata
RECURSIVE SumSizes(_)
SumSizes(files) == IF files = <<>> THEN 0 ELSE Head(files).size + SumSizes(Tail(files))

RECURSIVE MaxSize(_)
MaxSize(files) ==
    IF Len(files) = 1 THEN files[1].size
    ELSE LET m == MaxSize(Tail(files))
         IN  IF Head(files).size > m THEN Head(files).size ELSE m

\* the keys of a Map filled from seq, in insertion order
RECURSIVE KeysInOrder(_)
KeysInOrder(keys) ==
    IF keys = <<>> THEN <<>>
    ELSE LET front == KeysInOrder(SubSeq(keys, 1, Len(keys) - 1))
             k == keys[Len(keys)]
         IN  IF \E i \in 1..Len(front) : front[i] = k THEN front ELSE Append(front, k)

\* a grouping that lists the members of each group last-pushed first
GroupByKeyReversed(items, keys) ==
    LET order == KeysInOrder(keys)
        at(k) == SelectSeq([i \in 1..Len(items) |-> i], LAMBDA i : keys[i] = k)
    IN  [g \in 1..Len(order) |->
            [j \in 1..Len(at(order[g])) |->
                items[at(order[g])[Len(at(order[g])) + 1 - j]]]]

\* the values of a Map<key, item[]> filled by pushing each item under its key
GroupByKey(items, keys) ==
    LET order == KeysInOrder(keys)
        at(k) == SelectSeq([i \in 1..Len(items) |-> i], LAMBDA i : keys[i] = k)
    IN  [g \in 1..Len(order) |-> [j \in 1..Len(at(order[g])) |-> items[at(order[g])[j]]]]

\* a name pass that emits every group
nameGroupIsDuplicateAlways(files) == Len(files) > 0

\* findNameBasedDuplicates: files.length > 1
nameGroupIsDuplicate(files) == Len(files) > 1

\* findContentBasedDuplicates: files.length > 1
contentGroupIsDuplicate(files) == Len(files) > 1

\* findFolderBasedDuplicates: files.length > 1
folderGroupIsDuplicate(files) == Len(files) > 1

\* a savings that keeps the first member, not the largest
savingsKeepFirst(files) == SumSizes(files) - files[1].size

\* totalSize - Math.max(...files.map(f => f.size))
savingsKeepLargest(files) == SumSizes(files) - MaxSize(files)

\* totalSize - files[0].size
savingsKeepFirstCopy(files) == SumSizes(files) - files[1].size

Group(type, files, savings) ==
    [type |-> type, files |-> files, totalSize |-> SumSizes(files),
     potentialSavings |-> savings]

\* a key that folds the case of the name
nameKeyFolded(file) == "x"

\* the key of nameGroups: file.name
nameKey(file) == file.name

findNameBasedDuplicates(files) ==
    LET nameGroups == GroupByKey(files, [i \in 1..Len(files) |-> nameKey(files[i])])
        kept == SelectSeq(nameGroups, nameGroupIsDuplicate)
    IN  [g \in 1..Len(kept) |->
            Group(NAME_BASED, kept[g], savingsKeepLargest(kept[g]))]

findContentBasedDuplicates(files) ==
    LET hashed == SelectSeq(files, LAMBDA f : f.hash # NoHash)
        hashGroups == GroupByKey(hashed, [i \in 1..Len(hashed) |-> hashed[i].hash])
        kept == SelectSeq(hashGroups, contentGroupIsDuplicate)
    IN  [g \in 1..Len(kept) |->
            Group(CONTENT_BASED, kept[g], savingsKeepFirstCopy(kept[g]))]

\* a digest of the paths and names alone
calculateStructureHashOfNames(files, subdirectories) ==
    <<"sha256", SortEntries([i \in 1..Len(files) |-> <<files[i][1]>>]),
                SortEntries([i \in 1..Len(subdirectories) |-> <<subdirectories[i][1]>>])>>

\* FolderComparer.calculateStructureHash: the digest of the sorted "file:" and
\* "dir:" entries; sha256 is taken as injective
calculateStructureHash(files, subdirectories) ==
    <<"sha256", SortEntries(files), SortEntries(subdirectories)>>

\* FolderComparer.buildFolderStructure of directory dir, whose path relative to
\* basePath is rel: the structureHash; files and subdirectories are the two Maps
\* in insertion order
RECURSIVE buildFolderStructure(_, _)
buildFolderStructure(dir, rel) ==
    LET entries == IF dir.readable THEN dir.entries ELSE <<>>
        fileEntries == SelectSeq(entries, LAMBDA e : e.kind = "file")
        dirEntries == SelectSeq(entries, LAMBDA e : e.kind = "dir")
        files == [i \in 1..Len(fileEntries) |->
                    <<Append(rel, fileEntries[i].name),
                      IF fileEntries[i].content \in {"locked", "locked2"} THEN <<"error">>
                      ELSE HashOf(fileEntries[i].content)>>]
        subdirectories ==
            [i \in 1..Len(dirEntries) |->
                <<<<dirEntries[i].name>>,
                  buildFolderStructure(dirEntries[i].sub, Append(rel, dirEntries[i].name))>>]
    IN  calculateStructureHash(files, subdirectories)

\* FolderComparer.getFolderSize
RECURSIVE getFolderSize(_)
getFolderSize(dir) ==
    LET entries == IF dir.readable THEN dir.entries ELSE <<>>
        sizeOf(e) == CASE e.kind = "dir" -> getFolderSize(e.sub)
                       [] e.kind = "file" -> SizeOf(e.content)
                       [] OTHER -> 0
    IN  SumSizes([i \in 1..Len(entries) |-> [size |-> sizeOf(entries[i])]])

\* FolderComparer.findDuplicateFolders
findDuplicateFolders(structures) ==
    SelectSeq(GroupByKey(structures,
                         [i \in 1..Len(structures) |-> structures[i].structureHash]),
              LAMBDA group : Len(group) > 1)

findFolderBasedDuplicates(directories, disk_) ==
    IF Len(directories) = 0 THEN <<>>
    ELSE LET folderStructures ==
                 [i \in 1..Len(directories) |->
                     [path |-> directories[i].path,
                      name |-> directories[i].name,
                      structureHash |->
                          buildFolderStructure(disk_[directories[i].path], <<>>)]]
             duplicateFolderGroups == findDuplicateFolders(folderStructures)
             metadata(folder) ==
                 [path |-> folder.path, name |-> folder.name, isDirectory |-> TRUE,
                  hash |-> NoHash, size |-> getFolderSize(disk_[folder.path])]
             asFiles(group) == [j \in 1..Len(group) |-> metadata(group[j])]
             converted == [g \in 1..Len(duplicateFolderGroups) |->
                              asFiles(duplicateFolderGroups[g])]
             kept == SelectSeq(converted, folderGroupIsDuplicate)
         IN  [g \in 1..Len(kept) |->
                 Group(FOLDER_BASED, kept[g], savingsKeepLargest(kept[g]))]

\* detectDuplicates
detectDuplicates ==
    /\ dpc = "ready"
    /\ groups' = findNameBasedDuplicates(scanFiles)
                 \o findContentBasedDuplicates(scanFiles)
                 \o findFolderBasedDuplicates(scanDirs, tree)
    /\ dpc' = "done"
    /\ UNCHANGED <<scanFiles, scanDirs, tree, scanOptions, filePaths, built, edited>>
    /\ UNCHANGED moreVars
    /\ UNCHANGED undoVars

\* new DuplicateDetector(files, directories) for a scan result of at most
\* MaxEntries files and directories, and the directories as they are on disk
InitDetect ==
    /\ fs = [p \in Paths |-> Absent]
    /\ UndoStart
    /\ \E nf \in 0..MaxEntries, nd \in 0..MaxEntries :
        /\ nf + nd <= MaxEntries
        /\ \E files \in [1..nf -> ScannedFiles], dirs \in [1..nd -> DirValues] :
            /\ scanFiles = [i \in 1..nf |-> [path |-> i] @@ files[i]]
            /\ scanDirs = [i \in 1..nd |->
                             [path |-> i, name |-> "d", isDirectory |-> TRUE]]
            /\ tree = dirs
    /\ groups = <<>>
    /\ dpc = "ready"
    /\ scanOptions = DefaultOptions
    /\ filePaths = <<>>
    /\ built = <<>>
    /\ edited = <<>>
    /\ MoreIdle

NextDetect == detectDuplicates

SpecDetect == InitDetect /\ [][NextDetect]_vars

----------------------------------------------------------------------------
(* Claims about the UndoSystem *)

\* the entries of a log with the given id
WithId(ops, id) == {i \in 1..Len(ops) : ops[i].id = id}

\* the entry's reversal has a source path, and no file is there
SourceMissing(e) ==
    \/ e.action = DELETE /\ e.backupPath # NoBackup /\ backups[e.backupPath] = Absent
    \/ e.action \in {MOVE, RENAME} /\ e.newPath # NoPath /\ fs[e.newPath] = Absent

\* this step performed the filesystem reversal of entry e, and it succeeded
ReversalDone(e) ==
    \/ /\ e.action = DELETE
       /\ e.backupPath # NoBackup
       /\ backups[e.backupPath] # Absent
       /\ fs'[e.originalPath] = backups[e.backupPath]
    \/ /\ e.action \in {MOVE, RENAME}
       /\ e.newPath # NoPath
       /\ fs[e.newPath] # Absent
       /\ fs'[e.originalPath] = fs[e.newPath]
       /\ fs'[e.newPath] = Absent

\* what C2 requires of one step
C2_UndoDeleteStep ==
    \A i \in 1..Len(operations) :
        LET e == operations[i]
        IN  (last'.op = "undo" /\ last'.ok /\ last'.id = e.id /\ e.action = DELETE)
            => /\ fs'[e.originalPath] = backups[e.backupPath]
               /\ backups'[e.backupPath] = Absent
               /\ WithId(operations', e.id) = {}

\* C2: when undoOperation succeeds on a Delete entry, afterwards the original
\* path holds the backed-up content, the backup file no longer exists, and the
\* log no longer contains the entry.
C2_UndoDeleteRestoresAndRemovesBackup == [][C2_UndoDeleteStep]_vars

\* what C3 requires of one step
C3_RecordStep ==
    (last'.op = "record" /\ last'.ok)
    => /\ \A i \in 1..Len(operations) :
            (operations[i].action = DELETE /\ backups[operations[i].backupPath] # Absent)
            => backups'[operations[i].backupPath] = backups[operations[i].backupPath]
       /\ LET e == operations'[Len(operations')]
          IN  e.action = DELETE => backups'[e.backupPath] = fs[e.originalPath]

\* C3: a recordOperation leaves the backup of every Delete entry already in the
\* log as it was, and the backup of a Delete entry it adds holds what the
\* original file held: every logged delete keeps a backup identical to its own
\* original, whatever other deletes are recorded.
C3_BackupsStayIdentical == [][C3_RecordStep]_vars

\* what C4 requires of one step
C4_RecordStep ==
    last'.op = "record"
    => /\ fs[last'.path] = Absent
          => (last'.ok => operations'[Len(operations')].action # DELETE)
       /\ ~last'.ok
          => (operations' = operations /\ disk' = disk /\ fs' = fs /\ backups' = backups)
       /\ (last'.ok /\ operations'[Len(operations')].action = DELETE)
          => backups'[operations'[Len(operations')].backupPath] = fs[last'.path]

\* C4: a recordOperation for a Delete whose backup copy cannot be made (the
\* source is missing, or the copy meets an I/O error) fails, and a failed
\* recordOperation adds no entry to the in-memory or the persisted log and
\* touches no file; a recordOperation that returns an id for a Delete did copy
\* the original.
C4_FailedBackupAbortsOnlyThisDelete == [][C4_RecordStep]_vars

\* C4 witness: a recordOperation failed on its backup, and a later
\* recordOperation has just returned its id.
C4_Witness ==
    /\ last.op = "record" /\ last.ok
    /\ track[last.id] = "live"
    /\ \E i \in Ids : i < last.id /\ track[i] = "aborted"

\* C5: when recordOperation returns an id, exactly one entry with that id is in
\* the in-memory log and that entry is in the persisted log.
C5_RecordedEntryIsPersisted ==
    (last.op = "record" /\ last.ok)
    => /\ Cardinality(WithId(operations, last.id)) = 1
       /\ \E i \in 1..Len(disk) :
            disk[i] = [operations[Len(operations)] EXCEPT
                          !.timestamp = <<"iso", operations[Len(operations)].timestamp>>]

\* what C6 requires of one step
C6_SecondUndoStep ==
    (last'.op = "undo" /\ last'.id \in Ids /\ track[last'.id] \in {"undone", "retried"})
    => (~last'.ok /\ operations' = operations /\ disk' = disk)

\* C6: an undoOperation for an id this instance has undone successfully reports
\* failure and leaves the in-memory and the persisted log unchanged.
C6_SecondUndoFails == [][C6_SecondUndoStep]_vars

\* C6 witness: an undoOperation has just failed for an id undone before.
C6_Witness ==
    /\ last.op = "undo" /\ ~last.ok
    /\ last.id \in Ids
    /\ track[last.id] \in {"undone", "retried"}

\* what C7 requires of one step
C7_MissingSourceStep ==
    \A i \in 1..Len(operations) :
        (last'.op = "undo" /\ last'.id = operations[i].id /\ SourceMissing(operations[i]))
        => /\ ~last'.ok
           /\ operations' = operations
           /\ disk' = disk
           /\ fs' = fs
           /\ backups' = backups

\* C7: an undoOperation for an entry whose backup file (Delete) or destination
\* file (Move/Rename) does not exist reports failure, keeps the entry, and
\* changes no file and no log.
C7_MissingSourceFailsAndKeepsEntry == [][C7_MissingSourceStep]_vars

\* C7 witness: an undoOperation failed for a missing file, the file came back,
\* and the retry has just succeeded.
C7_Witness ==
    /\ last.op = "undo" /\ last.ok
    /\ last.id \in Ids
    /\ track[last.id] = "retried"

\* what C8 requires of one step
C8_UndoStep ==
    \A i \in 1..Len(operations) :
        LET e == operations[i]
        IN  (last'.op = "undo" /\ last'.id = e.id)
            => ((last'.ok \/ WithId(operations', e.id) = {}) => ReversalDone(e))

\* C8: undoOperation removes an entry from the log, or reports success, only
\* when the filesystem reversal of that entry was performed and succeeded.
C8_RemovedOnlyAfterReversal == [][C8_UndoStep]_vars

\* what C9 requires of one step
C9_ClearStep ==
    last'.op = "clear"
    => /\ operations' = <<>>
       /\ disk' = <<>>
       /\ \A i \in 1..Len(operations) :
            (operations[i].backupPath # NoBackup
                /\ operations[i].backupPath \notin last'.failed)
            => backups'[operations[i].backupPath] = Absent

\* C9: after clearHistory the in-memory and the persisted log are empty, and
\* every backup a logged entry referenced, except those whose removal failed,
\* no longer exists.
C9_ClearEmptiesLogAndBackups == [][C9_ClearStep]_vars

\* what C10 requires of one step
C10_PersistStep ==
    /\ (last.op = "new" /\ last'.op = "init") => operations' = prevOps
    /\ (last'.op = "record" /\ last'.ok)
       => \A i \in 1..Len(disk) : \E j \in 1..Len(disk') : disk'[j] = disk[i]

\* C10: a fresh instance that runs initialize holds exactly the entries the
\* previous instance held, and a recordOperation never drops an entry that was
\* persisted before it.
C10_LogPersistsAcrossInstances == [][C10_PersistStep]_vars

\* what C24 requires of one step
C24_MoveStep ==
    /\ \A i \in 1..Len(operations) :
          LET e == operations[i]
          IN  (/\ last'.op = "undo" /\ last'.ok /\ last'.id = e.id
               /\ e.action \in {MOVE, RENAME} /\ e.newPath # NoPath)
              => /\ fs'[e.originalPath] = fs[e.newPath]
                 /\ fs'[e.newPath] = Absent
                 /\ WithId(operations', e.id) = {}
                 /\ WithId(disk', e.id) = {}
                 /\ backups' = backups
    /\ (last'.op = "record" /\ last'.ok
            /\ operations'[Len(operations')].action \in {MOVE, RENAME})
       => /\ backups' = backups
          /\ operations'[Len(operations')].backupPath = NoBackup

\* C24: when undoOperation succeeds on a Move or Rename entry, the file that
\* was at the destination path is at the original path, nothing is at the
\* destination path, and the entry is in neither the in-memory nor the persisted
\* log; recording or undoing a Move or Rename creates and changes no backup.
C24_UndoMoveRestoresAndForgets == [][C24_MoveStep]_vars

\* what C28 requires of one step
C28_UndoStep ==
    \A i \in 1..Len(operations) :
        LET e == operations[i]
        IN  (last'.op = "undo" /\ last'.id = e.id /\ fs[e.originalPath] # Absent)
            => fs'[e.originalPath] = fs[e.originalPath]

\* C28: an undoOperation for an entry at whose original path a file exists
\* leaves that file's content as it is, whether it reports success or failure.
C28_UndoKeepsFileAtOriginalPath == [][C28_UndoStep]_vars

\* what C26 requires of one step
C26_RecentStep ==
    last'.op = "recent"
    => /\ operations' = operations
       /\ disk' = disk
       /\ Len(last'.result) <= last'.limit
       /\ \A i \in 1..Len(last'.result), j \in 1..Len(last'.result) :
             i < j => last'.result[i].timestamp >= last'.result[j].timestamp
       /\ \A i \in 1..Len(last'.result) : WithId(operations, last'.result[i].id) # {}

\* C26: getRecentOperations returns at most limit entries of the log, newest
\* first, and leaves the in-memory log, entries and order, and the persisted
\* log as they were.
C26_RecentIsReadOnly == [][C26_RecentStep]_vars

\* what C25 requires of one step
C25_InterleavedStep ==
    /\ \A id \in IdsOf(operations) \ IdsOf(operations') :
          \E c \in 1..MaxCalls :
              /\ calls'[c] # calls[c]
              /\ calls'[c].method = "undo"
              /\ calls'[c].id = id
    /\ \A id \in Ids : track'[id] # "twice"

\* C25: whatever the interleaving of the calls in flight, an entry leaves the
\* log only in a step of an undoOperation that was given that entry's id, and
\* no id has its filesystem reversal performed twice.
C25_UndoRemovesOnlyItsEntry == [][C25_InterleavedStep]_vars

----------------------------------------------------------------------------
(* Claims about the DuplicateDetector *)

\* C1: every DuplicateGroup detectDuplicates returns, of any of the three
\* kinds, has at least 2 members.
C1_GroupsHaveTwoMembers ==
    dpc = "done" => \A g \in 1..Len(groups) : Len(groups[g].files) >= 2

\* C1 witness: a result with a group of each of the three kinds.
C1_Witness ==
    /\ dpc = "done"
    /\ \A t \in {NAME_BASED, CONTENT_BASED, FOLDER_BASED} :
            \E g \in 1..Len(groups) : groups[g].type = t

\* the sum of the sizes of the first n members
RECURSIVE MemberSizeSum(_, _)
MemberSizeSum(files, n) ==
    IF n = 0 THEN 0 ELSE MemberSizeSum(files, n - 1) + files[n].size

\* the group's members have different sizes and the first is not the largest
FirstIsSmaller(g) == \E i \in 1..Len(g.files) : g.files[i].size > g.files[1].size

\* C11: for every name-based and every folder-based group, totalSize is the sum
\* of the member sizes and potentialSavings is that sum minus the largest member
\* size.
C11_SavingsKeepLargest ==
    dpc = "done"
    => \A g \in 1..Len(groups) :
          groups[g].type \in {NAME_BASED, FOLDER_BASED}
          => LET files == groups[g].files
                 total == MemberSizeSum(files, Len(files))
             IN  /\ groups[g].totalSize = total
                 /\ \E i \in 1..Len(files) :
                        /\ \A j \in 1..Len(files) : files[j].size <= files[i].size
                        /\ groups[g].potentialSavings = total - files[i].size

\* C11 witness: a name-based group and a folder-based group whose first member
\* is smaller than another one, the name group of sizes [1, 2] reclaiming 1.
C11_Witness ==
    /\ dpc = "done"
    /\ \E g \in 1..Len(groups) :
          /\ groups[g].type = NAME_BASED
          /\ [i \in 1..Len(groups[g].files) |-> groups[g].files[i].size] = <<1, 2>>
          /\ groups[g].potentialSavings = 1
    /\ \E g \in 1..Len(groups) :
          groups[g].type = FOLDER_BASED /\ FirstIsSmaller(groups[g])

\* C12: the members of every content-based group are listed in the order of the
\* scan's file list, and potentialSavings is the sum of the member sizes minus
\* the size of the first member.
C12_ContentGroupKeepsFirst ==
    dpc = "done"
    => \A g \in 1..Len(groups) :
          groups[g].type = CONTENT_BASED
          => LET files == groups[g].files
             IN  /\ \A i \in 1..Len(files), j \in 1..Len(files) :
                        i < j => files[i].path < files[j].path
                 /\ \A i \in 1..Len(files) : scanFiles[files[i].path] = files[i]
                 /\ groups[g].potentialSavings =
                        MemberSizeSum(files, Len(files)) - files[1].size

\* C12 witness: a content-based group of three members of one size, reclaiming
\* twice that size, from a scan that listed another file between them.
C12_Witness ==
    /\ dpc = "done"
    /\ \E g \in 1..Len(groups) :
          /\ groups[g].type = CONTENT_BASED
          /\ Len(groups[g].files) = 3
          /\ groups[g].files[3].path = 4
          /\ groups[g].potentialSavings = 2 * groups[g].files[1].size

\* the name-based groups that have the scanned file of path i as a member
NameGroupsOf(i) ==
    {g \in 1..Len(groups) :
        /\ groups[g].type = NAME_BASED
        /\ \E m \in 1..Len(groups[g].files) : groups[g].files[m].path = i}

\* C23: two scanned files are members of one name-based group iff their names
\* are the same string; a file whose name another file has is a member of
\* exactly one name-based group, once, and a file with a name of its own is a
\* member of none.
C23_NameGroupsPartitionByExactName ==
    dpc = "done"
    => /\ \A i \in 1..Len(scanFiles), j \in 1..Len(scanFiles) :
             i # j => ((NameGroupsOf(i) \cap NameGroupsOf(j) # {})
                          <=> scanFiles[i].name = scanFiles[j].name)
       /\ \A i \in 1..Len(scanFiles) :
             IF \E j \in 1..Len(scanFiles) : j # i /\ scanFiles[j].name = scanFiles[i].name
             THEN /\ Cardinality(NameGroupsOf(i)) = 1
                  /\ \A g \in NameGroupsOf(i) :
                        Cardinality({m \in 1..Len(groups[g].files) :
                                        groups[g].files[m].path = i}) = 1
             ELSE NameGroupsOf(i) = {}

\* C23 witness: of three scanned files, two are named x and are grouped, and the
\* third, named X, is in no name-based group.
C23_Witness ==
    /\ dpc = "done"
    /\ Len(scanFiles) = 3
    /\ [i \in 1..3 |-> scanFiles[i].name] = <<"x", "X", "x">>
    /\ NameGroupsOf(1) # {}
    /\ NameGroupsOf(1) = NameGroupsOf(3)
    /\ NameGroupsOf(2) = {}

\* C29: no member of a folder-based group is a directory whose listing could
\* not be read in the folder pass.
C29_UnreadableDirectoryNeverGrouped ==
    dpc = "done"
    => \A g \in 1..Len(groups) :
          groups[g].type = FOLDER_BASED
          => \A m \in 1..Len(groups[g].files) : tree[groups[g].files[m].path].readable

----------------------------------------------------------------------------
(* FileScanner.scan *)

\* what stat and a read find at a path: a regular file with its content
\* ("locked": the bytes cannot be read), a directory, or nothing any more
OnDiskFile(name, c) == [name |-> name, kind |-> "file", content |-> c, sub |-> Unreadable]
OnDiskDir(name, d) == [name |-> name, kind |-> "dir", content |-> "empty", sub |-> d]
Vanished(name) == [name |-> name, kind |-> "gone", content |-> "empty", sub |-> Unreadable]

\* a symbolic link to target: a regular file, a directory, or nothing (a
\* broken link); content and sub are what is found through the link
Symlink(name, target) ==
    [name |-> name,
     kind |-> CASE target.kind = "file" -> "link:file"
                [] target.kind = "dir" -> "link:dir"
                [] OTHER -> "link:gone",
     content |-> target.content, sub |-> target.sub]

\* Dirent.isSymbolicLink
isSymbolicLink(entry) == entry.kind \in {"link:file", "link:dir", "link:gone"}

\* fs.stat follows symbolic links: the kind of what the path resolves to, "gone"
\* when stat throws ENOENT
statKind(entry) ==
    CASE entry.kind = "link:file" -> "file"
      [] entry.kind = "link:dir" -> "dir"
      [] entry.kind = "link:gone" -> "gone"
      [] OTHER -> entry.kind

OnDisk ==
    {OnDiskFile(n, c) : n \in FileNames, c \in ScanContents \cup {"locked"}}
    \cup {OnDiskDir("d", d) : d \in LeafDirs}
    \cup {Vanished("x")}
    \cup {Symlink("x", target) :
            target \in {OnDiskFile("x", "c1"), OnDiskDir("d", Listing(<<>>)), Vanished("x")}}

\* shouldIgnoreFile: some pattern, taken as a regular expression, matches the
\* path; the patterns here are plain names
shouldIgnoreFile(entry, ignorePatterns) == entry.name \in ignorePatterns

\* calculateFileHash rejects: the read stream emits an error
hashFails(entry) == entry.content \in {"locked", "locked2"}

\* the body of scan's loop for filePaths[i]: "skip" for a continue, or the
\* FileMetadata pushed
scanOne(i) ==
    LET entry == filePaths[i]
    IN  IF shouldIgnoreFile(entry, scanOptions.ignorePatterns) THEN [to |-> "skip"]
        ELSE IF statKind(entry) = "gone" THEN [to |-> "skip"]
        ELSE IF statKind(entry) = "dir"
             THEN [to |-> "directories",
                   metadata |-> [path |-> i, name |-> entry.name, isDirectory |-> TRUE]]
        ELSE IF needsHash(SizeOf(entry.content)) /\ hashFails(entry)
             THEN [to |-> "skip"]
        ELSE [to |-> "files",
              metadata |-> [path |-> i] @@ ScannedFile(entry.name, entry.content)]

\* the metadata scan pushed to one of its two lists, in order
Pushed(list) ==
    LET kept == SelectSeq([i \in 1..Len(filePaths) |-> i],
                          LAMBDA i : scanOne(i).to = list)
    IN  [j \in 1..Len(kept) |-> scanOne(kept[j]).metadata]

\* scan, and the DuplicateDetector constructed on its result
scan ==
    /\ dpc \in {"toscan", "walked"}
    /\ scanFiles' = Pushed("files")
    /\ scanDirs' = Pushed("directories")
    /\ tree' = [i \in 1..Len(filePaths) |-> filePaths[i].sub]
    /\ dpc' = "ready"
    /\ UNCHANGED <<groups, scanOptions, filePaths, built, edited>>
    /\ UNCHANGED moreVars
    /\ UNCHANGED undoVars

\* a FileScanner whose walk returned up to MaxEntries paths
InitScan ==
    /\ fs = [p \in Paths |-> Absent]
    /\ UndoStart
    /\ \E n \in 0..MaxEntries : filePaths \in [1..n -> OnDisk]
    /\ \E patterns \in {{}, {"X"}} :
          scanOptions = [DefaultOptions EXCEPT !.ignorePatterns = patterns]
    /\ scanFiles = <<>>
    /\ scanDirs = <<>>
    /\ tree = <<>>
    /\ groups = <<>>
    /\ built = <<>>
    /\ edited = <<>>
    /\ MoreIdle
    /\ dpc = "toscan"

NextScan == scan \/ detectDuplicates

SpecScan == InitScan /\ [][NextScan]_vars

----------------------------------------------------------------------------
(* Claims about FileScanner.scan *)

\* C13: no file of size 0 gets a fingerprint from the scan, and no file of size
\* 0 is a member of a content-based group.
C13_EmptyFilesNeverContentGrouped ==
    /\ \A i \in 1..Len(scanFiles) : scanFiles[i].size = 0 => scanFiles[i].hash = NoHash
    /\ \A g \in 1..Len(groups) :
          groups[g].type = CONTENT_BASED
          => \A i \in 1..Len(groups[g].files) : groups[g].files[i].size # 0

\* C13 witness: a scan of three empty files, two of one name, ended with a
\* name-based group of empty files and no content-based group.
C13_Witness ==
    /\ dpc = "done"
    /\ Cardinality({i \in 1..Len(scanFiles) : scanFiles[i].size = 0}) >= 3
    /\ \E g \in 1..Len(groups) :
          groups[g].type = NAME_BASED /\ groups[g].totalSize = 0
    /\ \A g \in 1..Len(groups) : groups[g].type # CONTENT_BASED

\* the regular files among filePaths whose bytes cannot be read, and which no
\* ignore pattern excludes
UnreadableListed ==
    {i \in 1..Len(filePaths) :
        /\ filePaths[i].kind = "file"
        /\ filePaths[i].content = "locked"
        /\ filePaths[i].name \notin scanOptions.ignorePatterns}

\* C14: after a scan, a non-empty file whose bytes could not be read is in the
\* scan's file list without a fingerprint, and it is a member of the name-based
\* group of its name when another listed file has that name.
C14_UnreadableFileStaysListed ==
    /\ dpc \in {"ready", "done"}
       => \A i \in UnreadableListed :
             \E j \in 1..Len(scanFiles) :
                 /\ scanFiles[j].path = i
                 /\ scanFiles[j].hash = NoHash
    /\ dpc = "done"
       => \A i \in UnreadableListed :
             (\E k \in 1..Len(scanFiles) :
                 scanFiles[k].path # i /\ scanFiles[k].name = filePaths[i].name)
             => \E g \in 1..Len(groups) :
                    /\ groups[g].type = NAME_BASED
                    /\ \E m \in 1..Len(groups[g].files) : groups[g].files[m].path = i

\* C21: with followSymlinks unset, the scan holds no directory record and no
\* fingerprint for a path that is a symbolic link, and a broken link is in
\* neither the file list nor the directory list.
C21_LinksNotResolved ==
    dpc \in {"ready", "done"}
    => \A i \in 1..Len(filePaths) :
          /\ (~scanOptions.followSymlinks /\ isSymbolicLink(filePaths[i]))
             => /\ \A j \in 1..Len(scanDirs) : scanDirs[j].path # i
                /\ \A j \in 1..Len(scanFiles) :
                      scanFiles[j].path = i => scanFiles[j].hash = NoHash
          /\ filePaths[i].kind = "link:gone"
             => /\ \A j \in 1..Len(scanDirs) : scanDirs[j].path # i
                /\ \A j \in 1..Len(scanFiles) : scanFiles[j].path # i

----------------------------------------------------------------------------
(* FolderComparer.buildFolderStructure on a tree and a variant of it *)

\* nesting of directories below the one buildFolderStructure is called on
MaxTreeDepth == 2

FolderContents == {"c1", "c2", "locked"}

\* the listings of a directory that holds regular files only
FileListings ==
    {<<>>}
    \cup {<<OnDiskFile(n, c)>> : n \in {"f", "g"}, c \in FolderContents}
    \cup {<<OnDiskFile("f", c), OnDiskFile("g", k)>> : c \in FolderContents, k \in FolderContents}
    \cup {<<OnDiskFile("g", k), OnDiskFile("f", c)>> : c \in FolderContents, k \in FolderContents}

\* the directories with subdirectories nested at most d deep
RECURSIVE DirsOfDepth(_)
DirsOfDepth(d) ==
    IF d = 0 THEN {Unreadable} \cup {Listing(l) : l \in FileListings}
    ELSE LET subs == DirsOfDepth(d - 1)
         IN  {Listing(<<>>)}
             \cup {Listing(<<OnDiskFile("f", c)>>) : c \in FolderContents}
             \cup {Listing(<<OnDiskDir("s", sub)>>) : sub \in subs}
             \cup {Listing(<<OnDiskFile("f", c), OnDiskDir("s", sub)>>) :
                      c \in FolderContents, sub \in subs}
             \cup {Listing(<<OnDiskDir("s", sub), OnDiskFile("f", c)>>) :
                      c \in FolderContents, sub \in subs}

\* relative paths of the directories of such a tree
RECURSIVE PathOfDepth(_)
PathOfDepth(n) == IF n = 0 THEN <<>> ELSE Append(PathOfDepth(n - 1), "s")

DirPaths == {PathOfDepth(n) : n \in 0..MaxTreeDepth}

\* the entry of dir that is the subdirectory called name, if any
SubdirsNamed(dir, name) ==
    SelectSeq(dir.entries, LAMBDA e : e.kind = "dir" /\ e.name = name)

RECURSIVE HasDir(_, _)
HasDir(dir, path) ==
    IF path = <<>> THEN TRUE
    ELSE IF SubdirsNamed(dir, Head(path)) = <<>> THEN FALSE
    ELSE HasDir(SubdirsNamed(dir, Head(path))[1].sub, Tail(path))

RECURSIVE AtPath(_, _)
AtPath(dir, path) ==
    IF path = <<>> THEN dir
    ELSE AtPath(SubdirsNamed(dir, Head(path))[1].sub, Tail(path))

\* the structureHash of every FolderStructure that buildFolderStructure(root,
\* root) returns, its own and those nested in subdirectories, by relative path
StructureHashes(root) ==
    [p \in {q \in DirPaths : HasDir(root, q)} |-> buildFolderStructure(AtPath(root, p), p)]

\* dir with the listing of its directory at path in the opposite order
RECURSIVE Shuffled(_, _)
Shuffled(dir, path) ==
    LET n == Len(dir.entries)
    IN  IF path = <<>>
        THEN [dir EXCEPT !.entries = [i \in 1..n |-> dir.entries[n + 1 - i]]]
        ELSE [dir EXCEPT !.entries =
                [i \in 1..n |->
                    LET e == dir.entries[i]
                    IN  IF e.kind = "dir" /\ e.name = Head(path)
                        THEN [e EXCEPT !.sub = Shuffled(e.sub, Tail(path))]
                        ELSE e]]

\* dir with content c written to the regular file name of its directory at path
RECURSIVE Rewritten(_, _, _, _)
Rewritten(dir, path, name, c) ==
    LET n == Len(dir.entries)
    IN  [dir EXCEPT !.entries =
            [i \in 1..n |->
                LET e == dir.entries[i]
                IN  IF path = <<>> /\ e.kind = "file" /\ e.name = name
                    THEN [e EXCEPT !.content = c]
                    ELSE IF path # <<>> /\ e.kind = "dir" /\ e.name = Head(path)
                    THEN [e EXCEPT !.sub = Rewritten(e.sub, Tail(path), name, c)]
                    ELSE e]]

BuildFrame ==
    /\ UNCHANGED <<scanFiles, scanDirs, groups, scanOptions, filePaths>>
    /\ UNCHANGED moreVars
    /\ UNCHANGED undoVars

\* readdir lists a directory of the second tree in another order
shuffle(path) ==
    /\ dpc = "tobuild"
    /\ HasDir(tree[2], path)
    /\ Len(AtPath(tree[2], path).entries) = 2
    /\ tree' = [tree EXCEPT ![2] = Shuffled(tree[2], path)]
    /\ UNCHANGED <<dpc, built, edited>>
    /\ BuildFrame

\* one regular file of the second tree gets another content
editFile(path, name, c) ==
    /\ dpc = "tobuild"
    /\ edited = <<>>
    /\ HasDir(tree[2], path)
    /\ \E i \in 1..Len(AtPath(tree[2], path).entries) :
          LET e == AtPath(tree[2], path).entries[i]
          IN  e.kind = "file" /\ e.name = name /\ e.content # c
    /\ tree' = [tree EXCEPT ![2] = Rewritten(tree[2], path, name, c)]
    /\ edited' = <<path, name>>
    /\ UNCHANGED <<dpc, built>>
    /\ BuildFrame

\* buildFolderStructure(root, root) for both trees
buildBoth ==
    /\ dpc = "tobuild"
    /\ built' = <<StructureHashes(tree[1]), StructureHashes(tree[2])>>
    /\ dpc' = "built"
    /\ UNCHANGED <<tree, edited>>
    /\ BuildFrame

InitFolder ==
    /\ fs = [p \in Paths |-> Absent]
    /\ UndoStart
    /\ \E root \in DirsOfDepth(MaxTreeDepth) : tree = <<root, root>>
    /\ scanFiles = <<>>
    /\ scanDirs = <<>>
    /\ groups = <<>>
    /\ scanOptions = DefaultOptions
    /\ filePaths = <<>>
    /\ built = <<>>
    /\ edited = <<>>
    /\ MoreIdle
    /\ dpc = "tobuild"

NextFolder ==
    \/ \E path \in DirPaths : shuffle(path)
    \/ \E path \in DirPaths, name \in {"f", "g"}, c \in FolderContents \cup {"locked2"} :
          editFile(path, name, c)
    \/ buildBoth

SpecFolder == InitFolder /\ [][NextFolder]_vars

----------------------------------------------------------------------------
(* Claims about FolderComparer *)

\* two directories hold the same entries, whatever the order of their listings,
\* at every level
RECURSIVE SameUpToOrder(_, _)
SameUpToOrder(a, b) ==
    /\ a.readable = b.readable
    /\ Len(a.entries) = Len(b.entries)
    /\ \A i \in 1..Len(a.entries) : \E j \in 1..Len(b.entries) :
          /\ a.entries[i].name = b.entries[j].name
          /\ a.entries[i].kind = b.entries[j].kind
          /\ a.entries[i].content = b.entries[j].content
          /\ (a.entries[i].kind = "dir"
                => SameUpToOrder(a.entries[i].sub, b.entries[j].sub))

\* C15: two trees with the same relative paths and file contents, listed in
\* whatever order at each level, get equal composite fingerprints, for the root
\* and for every directory below it.
C15_FingerprintIgnoresListingOrder ==
    (dpc = "built" /\ SameUpToOrder(tree[1], tree[2])) => built[1] = built[2]

\* C15 witness: both trees were built, the second one listing the root and a
\* directory of two files below it in the opposite order.
C15_Witness ==
    /\ dpc = "built"
    /\ edited = <<>>
    /\ Len(tree[1].entries) = 2
    /\ tree[2].entries[1].name = tree[1].entries[2].name
    /\ \E p \in DirPaths \ {<<>>} :
          /\ HasDir(tree[1], p)
          /\ Len(AtPath(tree[1], p).entries) = 2
          /\ AtPath(tree[1], p).entries[1].kind = "file"
          /\ AtPath(tree[1], p).entries[2].kind = "file"
          /\ AtPath(tree[2], p).entries[1] = AtPath(tree[1], p).entries[2]

\* the content fingerprint buildFolderStructure records for a file
FingerprintOf(c) == IF c \in {"locked", "locked2"} THEN "error" ELSE c

\* the content of the regular file name of the directory at path
ContentAt(root, path, name) ==
    LET files == SelectSeq(AtPath(root, path).entries,
                           LAMBDA e : e.kind = "file" /\ e.name = name)
    IN  files[1].content

\* C16: when the content fingerprint of one regular file below D differs
\* between the two trees, the composite fingerprints of D and of every
\* directory between D and the file differ.
C16_FileChangeReachesAncestors ==
    (/\ dpc = "built"
     /\ edited # <<>>
     /\ FingerprintOf(ContentAt(tree[1], edited[1], edited[2]))
            # FingerprintOf(ContentAt(tree[2], edited[1], edited[2])))
    => \A n \in 0..Len(edited[1]) :
          built[1][SubSeq(edited[1], 1, n)] # built[2][SubSeq(edited[1], 1, n)]

\* C16 witness: the changed file lies MaxTreeDepth directories below D, its
\* fingerprint changed from one digest to another, and both trees were built.
C16_Witness ==
    /\ dpc = "built"
    /\ edited # <<>>
    /\ Len(edited[1]) = MaxTreeDepth
    /\ ContentAt(tree[1], edited[1], edited[2]) = "c1"
    /\ ContentAt(tree[2], edited[1], edited[2]) = "c2"

----------------------------------------------------------------------------
(* GitignoreParser *)

\* maxDepth of findGitignoreFiles
GitignoreSearchDepth == 10

\* A line of a .gitignore file is a sequence of tokens: "!", "/", "#" and the
\* names between the slashes. The files a tree can hold, by content:
Lines(content) ==
    CASE content = "gi-build" -> << <<"#">>, <<"build", "/">>, <<>> >>
      [] content = "gi-build-keep" ->
            << <<"build", "/">>, <<"!", "build", "/", "keep.txt">> >>
      [] content = "gi-x" -> << <<"x">> >>
      [] content = "gi-not-x" -> << <<"!", "x">> >>
      [] OTHER -> << >>

\* the names between the slashes of a pattern
RECURSIVE Segments(_)
Segments(tokens) ==
    IF tokens = <<>> THEN <<>>
    ELSE IF Head(tokens) = "/" THEN Segments(Tail(tokens))
    ELSE <<Head(tokens)>> \o Segments(Tail(tokens))

\* patternToRegex for a pattern without wildcards: "^" for a leading slash,
\* "(^|/)" otherwise, then the pattern, then "(/.*)?$"
patternToRegex(pattern) ==
    [anchored |-> pattern # <<>> /\ Head(pattern) = "/", segments |-> Segments(pattern)]

\* regex.test(normalizedPath), the path given by its segments
regexTest(regex, path) ==
    LET n == Len(regex.segments)
    IN  /\ n > 0
        /\ \E k \in 1..Len(path) :
              /\ regex.anchored => k = 1
              /\ k + n - 1 <= Len(path)
              /\ SubSeq(path, k, k + n - 1) = regex.segments

\* parseRule
parseRule(pattern) ==
    LET isNegation == pattern # <<>> /\ Head(pattern) = "!"
        unsigned == IF isNegation THEN Tail(pattern) ELSE pattern
        isDirectory == unsigned # <<>> /\ unsigned[Len(unsigned)] = "/"
        cleanPattern == IF isDirectory THEN SubSeq(unsigned, 1, Len(unsigned) - 1)
                        ELSE unsigned
    IN  [pattern |-> cleanPattern, isNegation |-> isNegation,
         isDirectory |-> isDirectory, regex |-> patternToRegex(cleanPattern)]

\* fromContent: the rules of the lines that are neither empty nor comments
fromContent(content) ==
    LET kept == SelectSeq(Lines(content), LAMBDA l : l # <<>> /\ Head(l) # "#")
    IN  [i \in 1..Len(kept) |-> parseRule(kept[i])]

\* a parser that ignores nothing
shouldIgnoreNothing(rules, filePath, isDirectory) == FALSE

\* a loop that ignores a path as soon as some rule that is no negation matches
shouldIgnoreAnyMatch(rules, filePath, isDirectory, isIgnored) ==
    \E i \in 1..Len(rules) : ~rules[i].isNegation /\ regexTest(rules[i].regex, filePath)

\* the loop of shouldIgnore over the rules left, isIgnored being its flag
RECURSIVE shouldIgnoreFrom(_, _, _, _)
shouldIgnoreFrom(rules, filePath, isDirectory, isIgnored) ==
    IF rules = <<>> THEN isIgnored
    ELSE LET rule == Head(rules)
         IN  IF rule.isDirectory /\ ~isDirectory
             THEN shouldIgnoreFrom(Tail(rules), filePath, isDirectory, isIgnored)
             ELSE IF regexTest(rule.regex, filePath)
             THEN shouldIgnoreFrom(Tail(rules), filePath, isDirectory, ~rule.isNegation)
             ELSE shouldIgnoreFrom(Tail(rules), filePath, isDirectory, isIgnored)

\* shouldIgnore
shouldIgnore(rules, filePath, isDirectory) ==
    shouldIgnoreFrom(rules, filePath, isDirectory, FALSE)

\* a name that starts with "."
Hidden(name) == name = ".gitignore"

\* the .gitignore of a directory, as a sequence of zero or one file contents
IgnoreFileOf(dir) ==
    LET found == SelectSeq(dir.entries,
                           LAMBDA e : e.kind = "file" /\ e.name = ".gitignore")
    IN  [i \in 1..Len(found) |-> found[i].content]

\* concatenation of a sequence of sequences
RECURSIVE Flatten(_)
Flatten(seqs) == IF seqs = <<>> THEN <<>> ELSE Head(seqs) \o Flatten(Tail(seqs))

\* findGitignoreFiles.searchDirectory: the .gitignore files of dir and below, in
\* the order found
RECURSIVE searchDirectory(_, _)
searchDirectory(dir, depth) ==
    IF depth > GitignoreSearchDepth \/ ~dir.readable THEN <<>>
    ELSE LET subs == SelectSeq(dir.entries,
                               LAMBDA e : e.kind = "dir" /\ ~Hidden(e.name))
         IN  IgnoreFileOf(dir)
             \o Flatten([i \in 1..Len(subs) |-> searchDirectory(subs[i].sub, depth + 1)])

\* createCombinedParser: the rules of all files found, appended in that order
createCombinedParser(directory) ==
    LET gitignoreFiles == searchDirectory(directory, 0)
    IN  Flatten([i \in 1..Len(gitignoreFiles) |-> fromContent(gitignoreFiles[i])])

\* number of rules of a parser that is asked about one path
MaxRules == 3

\* the lines the rules are parsed from
IgnorePatterns ==
    {<<"x">>, <<"!", "x">>, <<"x", "/">>, <<"!", "x", "/">>, <<"/", "x">>, <<"a", "/", "x">>}

\* the paths a parser is asked about
AskedPaths == {<<"x">>, <<"a">>, <<"a", "x">>, <<"x", "a">>}

\* parser.shouldIgnore(filePath, isDirectory) on the parser of query
shouldIgnoreCall ==
    /\ dpc = "toask"
    /\ verdict' = shouldIgnore(query.rules, query.filePath, query.isDirectory)
    /\ dpc' = "asked"
    /\ UNCHANGED <<scanFiles, scanDirs, tree, groups, scanOptions, filePaths, built, edited>>
    /\ UNCHANGED <<query, calls, stack>>
    /\ UNCHANGED undoVars

\* a GitignoreParser of up to MaxRules rules, and a path to ask it about
InitIgnore ==
    /\ fs = [p \in Paths |-> Absent]
    /\ UndoStart
    /\ \E n \in 0..MaxRules :
          \E patterns \in [1..n -> IgnorePatterns], filePath \in AskedPaths,
             isDirectory \in BOOLEAN :
              query = [rules |-> [i \in 1..n |-> parseRule(patterns[i])],
                       filePath |-> filePath, isDirectory |-> isDirectory]
    /\ verdict = "none"
    /\ calls = <<>>
    /\ stack = <<>>
    /\ scanFiles = <<>>
    /\ scanDirs = <<>>
    /\ tree = <<>>
    /\ groups = <<>>
    /\ scanOptions = DefaultOptions
    /\ filePaths = <<>>
    /\ built = <<>>
    /\ edited = <<>>
    /\ dpc = "toask"

NextIgnore == shouldIgnoreCall

SpecIgnore == InitIgnore /\ [][NextIgnore]_vars

\* the rules of query that apply to the kind of path asked about and match it
MatchingRules ==
    {i \in 1..Len(query.rules) :
        /\ query.rules[i].isDirectory => query.isDirectory
        /\ regexTest(query.rules[i].regex, query.filePath)}

\* C22: shouldIgnore returns true iff some applicable rule matches the path and
\* the last such rule in list order is not a negation, a directory-only rule
\* being applicable only when the path is a directory.
C22_LastMatchingRuleDecides ==
    dpc = "asked"
    => (verdict <=>
            /\ MatchingRules # {}
            /\ ~query.rules[CHOOSE i \in MatchingRules :
                               \A j \in MatchingRules : j <= i].isNegation)

\* C22 witness: a file path that rule 1 excludes and rule 2, a negation,
\* re-includes, while rule 3, directory-only, would match it: not ignored.
C22_Witness ==
    /\ dpc = "asked"
    /\ Len(query.rules) = 3
    /\ ~query.isDirectory
    /\ MatchingRules = {1, 2}
    /\ ~query.rules[1].isNegation
    /\ query.rules[2].isNegation
    /\ query.rules[3].isDirectory /\ ~query.rules[3].isNegation
    /\ regexTest(query.rules[3].regex, query.filePath)
    /\ verdict = FALSE

----------------------------------------------------------------------------
(* FileScanner.getFilePathsNative *)

\* the depth check of scanDirectory: maxDepth is tested for truthiness first
depthReached(options, currentDepth) ==
    /\ options.maxDepth # NoDepth
    /\ options.maxDepth[1] # 0
    /\ currentDepth >= options.maxDepth[1]

\* scanDirectory: the entries pushed to filePaths while directory, whose
\* relative path is rel, is scanned from its entry number from on
RECURSIVE scanDirectory(_, _, _, _, _, _)
scanDirectory(directory, rel, currentDepth, from, rules, options) ==
    IF depthReached(options, currentDepth) \/ ~directory.readable THEN <<>>
    ELSE IF from > Len(directory.entries) THEN <<>>
    ELSE LET entry == directory.entries[from]
             relativePath == Append(rel, entry.name)
             rest == scanDirectory(directory, rel, currentDepth, from + 1, rules, options)
         IN  IF ~options.includeHidden /\ Hidden(entry.name) THEN rest
             ELSE IF shouldIgnore(rules, relativePath, entry.kind = "dir") THEN rest
             ELSE <<[path |-> relativePath] @@ entry>>
                  \o (IF entry.kind = "dir"
                         \/ (/\ isSymbolicLink(entry) /\ options.followSymlinks
                             /\ statKind(entry) = "dir")
                      THEN scanDirectory(entry.sub, relativePath, currentDepth + 1, 1,
                                         rules, options)
                      ELSE <<>>)
                  \o rest

\* getFilePathsNative on scanOptions.directory
getFilePathsNative ==
    /\ dpc = "towalk"
    /\ filePaths' = scanDirectory(tree, <<>>, 0, 1, createCombinedParser(tree), scanOptions)
    /\ dpc' = "walked"
    /\ UNCHANGED <<scanFiles, scanDirs, tree, groups, scanOptions, built, edited>>
    /\ UNCHANGED moreVars
    /\ UNCHANGED undoVars

\* the directory trees that are walked: a root with the directories "a" and
\* "build", each with one directory below it, regular files "x" and
\* "keep.txt", and .gitignore files in the root and in the directories below it
IgnoreEntries(contents) ==
    {<<>>} \cup {<<OnDiskFile(".gitignore", c)>> : c \in contents}

WalkLeaves ==
    {Unreadable}
    \cup {Listing(files) : files \in {<<>>, <<OnDiskFile("x", "c1")>>,
                                    <<OnDiskFile("keep.txt", "c1"), OnDiskFile("x", "c1")>>}}

\* the directory below "a" is called "build", the one below "build" is "a"
WalkBelow(name) == IF name = "a" THEN "build" ELSE "a"

WalkMids(name) ==
    {Unreadable}
    \cup {Listing(ignore \o leaf.entries \o below) :
            ignore \in IgnoreEntries({"gi-x", "gi-not-x"}),
            leaf \in WalkLeaves \ {Unreadable},
            below \in {<<>>} \cup {<<OnDiskDir(WalkBelow(name), d)>> : d \in WalkLeaves}}

WalkRoots ==
    {Listing(ignore \o files \o a \o build) :
        ignore \in IgnoreEntries({"gi-build", "gi-build-keep", "gi-x"}),
        files \in {<<>>, <<OnDiskFile("x", "c1")>>},
        a \in {<<>>} \cup {<<OnDiskDir("a", d)>> : d \in WalkMids("a")},
        build \in {<<>>} \cup {<<OnDiskDir("build", d)>> : d \in WalkMids("build")}}

\* the values of ScanOptions.maxDepth
DepthLimits == {NoDepth} \cup {<<m>> : m \in 0..MaxTreeDepth}

\* a FileScanner for a directory, before its walk
InitWalk ==
    /\ fs = [p \in Paths |-> Absent]
    /\ UndoStart
    /\ tree \in WalkRoots
    /\ \E maxDepth \in DepthLimits, includeHidden \in BOOLEAN :
          scanOptions = [DefaultOptions EXCEPT !.maxDepth = maxDepth,
                                               !.includeHidden = includeHidden]
    /\ filePaths = <<>>
    /\ scanFiles = <<>>
    /\ scanDirs = <<>>
    /\ groups = <<>>
    /\ built = <<>>
    /\ edited = <<>>
    /\ MoreIdle
    /\ dpc = "towalk"

NextWalk == getFilePathsNative

SpecWalk == InitWalk /\ [][NextWalk]_vars

----------------------------------------------------------------------------
(* Claims about the walk *)

\* the relative paths the walk emitted
Emitted == {filePaths[i].path : i \in 1..Len(filePaths)}

\* the contents of the .gitignore files the walk's parser was built from
LoadedIgnoreFiles == {c \in {"gi-build", "gi-build-keep", "gi-x", "gi-not-x"} :
                         \E i \in 1..Len(searchDirectory(tree, 0)) :
                             searchDirectory(tree, 0)[i] = c}

\* C17: with the rule `build/` in the root ignore file, the walk emits no
\* directory named build and no path below a directory named build.
C17_BuildDirectoryExcluded ==
    (dpc = "walked" /\ IgnoreFileOf(tree) = <<"gi-build">>)
    => \A i \in 1..Len(filePaths) :
          \A k \in 1..Len(filePaths[i].path) :
              filePaths[i].path[k] = "build"
              => (k = Len(filePaths[i].path) /\ filePaths[i].kind # "dir")

\* C17 witness: the root ignore file holds `build/`, the tree has files in
\* build, in build/a and in a/build, and the walk emitted a/x and nothing
\* with build in it.
C17_Witness ==
    /\ dpc = "walked"
    /\ IgnoreFileOf(tree) = <<"gi-build">>
    /\ HasDir(tree, <<"build", "a">>)
    /\ AtPath(tree, <<"build">>).entries # <<>>
    /\ AtPath(tree, <<"build">>).entries[1].name = "keep.txt"
    /\ AtPath(tree, <<"build", "a">>).entries # <<>>
    /\ HasDir(tree, <<"a", "build">>)
    /\ AtPath(tree, <<"a", "build">>).entries # <<>>
    /\ <<"a", "x">> \in Emitted

\* C18: with the rules `build/` and `!build/keep.txt` in the root ignore file
\* and a file build/keep.txt on disk, the walk emits build/keep.txt and no
\* other file below build.
C18_KeepFileReincluded ==
    (/\ dpc = "walked"
     /\ IgnoreFileOf(tree) = <<"gi-build-keep">>
     /\ LoadedIgnoreFiles = {"gi-build-keep"}
     /\ scanOptions.maxDepth = NoDepth
     /\ HasDir(tree, <<"build">>)
     /\ \E i \in 1..Len(AtPath(tree, <<"build">>).entries) :
           AtPath(tree, <<"build">>).entries[i].name = "keep.txt")
    => /\ <<"build", "keep.txt">> \in Emitted
       /\ \A i \in 1..Len(filePaths) :
             (filePaths[i].kind = "file" /\ \E k \in 1..Len(filePaths[i].path) - 1 :
                                                filePaths[i].path[k] = "build")
             => filePaths[i].path = <<"build", "keep.txt">>

\* the directories of a walked tree, by relative path
WalkDirPaths == {<<>>, <<"a">>, <<"build">>, <<"a", "build">>, <<"build", "a">>}

\* root with the .gitignore of its directory at path taken away
RECURSIVE WithoutIgnore(_, _)
WithoutIgnore(dir, path) ==
    IF path = <<>>
    THEN [dir EXCEPT !.entries = SelectSeq(dir.entries, LAMBDA e : e.name # ".gitignore")]
    ELSE [dir EXCEPT !.entries =
            [i \in 1..Len(dir.entries) |->
                LET e == dir.entries[i]
                IN  IF e.kind = "dir" /\ e.name = Head(path)
                    THEN [e EXCEPT !.sub = WithoutIgnore(e.sub, Tail(path))]
                    ELSE e]]

\* the paths a walk of root emits, with the options of this run
WalkOf(root) ==
    LET result == scanDirectory(root, <<>>, 0, 1, createCombinedParser(root), scanOptions)
    IN  {result[i].path : i \in 1..Len(result)}

\* the paths that are neither X nor below X
Outside(paths, X) ==
    {q \in paths : ~(Len(q) >= Len(X) /\ SubSeq(q, 1, Len(X)) = X)}

\* C19: the rules of directory X's ignore file neither exclude nor re-include a
\* path outside X's subtree: outside X, the walk emits what it would emit if
\* X had no ignore file.
C19_RulesStayInTheirSubtree ==
    dpc = "walked"
    => \A X \in WalkDirPaths :
          HasDir(tree, X)
          => Outside(Emitted, X) = Outside(WalkOf(WithoutIgnore(tree, X)), X)

\* C20: with maxDepth set to m >= 0 the walk emits no entry of a directory at
\* depth >= m (the root being at depth 0), and with maxDepth not set every
\* entry of an emitted directory that is neither hidden nor ignored is emitted.
C20_DepthLimit ==
    dpc = "walked"
    => /\ scanOptions.maxDepth # NoDepth
          => \A q \in Emitted : Len(q) - 1 < scanOptions.maxDepth[1]
       /\ scanOptions.maxDepth = NoDepth
          => \A i \in 1..Len(filePaths) :
                filePaths[i].kind = "dir"
                => \A j \in 1..Len(filePaths[i].sub.entries) :
                      LET e == filePaths[i].sub.entries[j]
                          q == Append(filePaths[i].path, e.name)
                      IN  \/ q \in Emitted
                          \/ ~scanOptions.includeHidden /\ e.name = ".gitignore"
                          \/ shouldIgnore(createCombinedParser(tree), q, e.kind = "dir")

----------------------------------------------------------------------------
(* FileScanner.getFilePathsNative, one entry at a time *)

\* the scanDirectory calls in progress the model goes up to
MaxStack == 5

\* a symbolic link whose target is the directory or file at the path target
\* below the scanned directory; kind says what fs.stat finds there
LinkTo(name, kind, target) ==
    [name |-> name, kind |-> kind, content |-> "empty", sub |-> Unreadable,
     target |-> target]

\* what is found at the path target below the directory root
RECURSIVE Found(_, _)
Found(root, target) ==
    IF target = <<>> THEN OnDiskDir("", root)
    ELSE LET here == {i \in 1..Len(root.entries) : root.entries[i].name = Head(target)}
         IN  IF here = {} THEN Vanished(Head(target))
             ELSE LET entry == root.entries[CHOOSE i \in here : TRUE]
                  IN  IF Tail(target) = <<>> THEN entry
                      ELSE IF entry.kind = "dir" THEN Found(entry.sub, Tail(target))
                      ELSE Vanished(Head(target))

\* every link of the directory says what its target is
RECURSIVE LinksResolve(_, _)
LinksResolve(root, directory) ==
    \A i \in 1..Len(directory.entries) :
        LET entry == directory.entries[i]
        IN  IF entry.kind = "dir" THEN LinksResolve(root, entry.sub)
            ELSE IF isSymbolicLink(entry)
            THEN statKind(entry) = Found(root, entry.target).kind
            ELSE TRUE

\* the links of the trees: to the scanned directory itself, to its directories
\* "a" and "g", to its file "x", and to nothing
Links ==
    {LinkTo("s", kind, target) :
        kind \in {"link:file", "link:dir", "link:gone"},
        target \in {<<>>, <<"a">>, <<"g">>, <<"x">>}}

\* the directory trees walked step by step: a root with a file "x", the
\* directories "a" and "g" and a link "s", and a link "s" in "a"
StepRoots ==
    {root \in
        {Listing(a \o g \o s \o files) :
            a \in {<<>>} \cup {<<OnDiskDir("a", Listing(below))>> :
                                  below \in {<<>>, <<OnDiskFile("x", "c1")>>}
                                            \cup {<<link>> : link \in Links}},
            g \in {<<>>, <<OnDiskDir("g", Unreadable)>>,
                   <<OnDiskDir("g", Listing(<<OnDiskFile("x", "c1")>>))>>},
            s \in {<<>>} \cup {<<link>> : link \in Links},
            files \in {<<>>, <<OnDiskFile("x", "c1")>>}} :
        LinksResolve(root, root)}

\* the call scanDirectory(directory, currentDepth) in progress: the listing
\* readdir returned, the relative path of the directory, the path of the
\* directory that path leads to once its links are resolved, and the entry
\* the loop is at
Frame(listing, rel, real, currentDepth) ==
    [listing |-> listing, rel |-> rel, real |-> real, currentDepth |-> currentDepth,
     from |-> 1]

\* getFilePathsNative up to the first iteration of scanDirectory on
\* scanOptions.directory
walkBegin ==
    /\ dpc = "towalk"
    /\ IF depthReached(scanOptions, 0) \/ ~tree.readable
       THEN /\ dpc' = "walked"
            /\ UNCHANGED stack
       ELSE /\ dpc' = "walking"
            /\ stack' = <<Frame(tree, <<>>, <<>>, 0)>>
    /\ UNCHANGED <<scanFiles, scanDirs, tree, groups, scanOptions, filePaths, built, edited>>
    /\ UNCHANGED <<query, verdict, calls>>
    /\ UNCHANGED undoVars

\* one iteration of the loop of the innermost scanDirectory call: the entry
\* is skipped or pushed, and a directory, or with followSymlinks a link that
\* fs.stat finds to be a directory, is entered
scanDirectoryStep ==
    /\ dpc = "walking"
    /\ stack # <<>>
    /\ LET top == stack[Len(stack)]
           advanced == [stack EXCEPT ![Len(stack)].from = @ + 1]
       IN  /\ top.from <= Len(top.listing.entries)
           /\ LET entry == top.listing.entries[top.from]
                  relativePath == Append(top.rel, entry.name)
              IN  IF ~scanOptions.includeHidden /\ Hidden(entry.name)
                  THEN /\ stack' = advanced
                       /\ UNCHANGED filePaths
                  ELSE IF shouldIgnore(createCombinedParser(tree), relativePath,
                                       entry.kind = "dir")
                  THEN /\ stack' = advanced
                       /\ UNCHANGED filePaths
                  ELSE /\ filePaths' = Append(filePaths, [path |-> relativePath] @@ entry)
                       /\ IF entry.kind = "dir"
                             \/ (/\ isSymbolicLink(entry)
                                 /\ scanOptions.followSymlinks
                                 /\ statKind(entry) = "dir")
                          THEN LET listing == IF entry.kind = "dir" THEN entry.sub
                                              ELSE Found(tree, entry.target).sub
                               IN  IF depthReached(scanOptions, top.currentDepth + 1)
                                      \/ ~listing.readable
                                   THEN stack' = advanced
                                   ELSE /\ Len(stack) < MaxStack
                                        /\ stack' = Append(advanced,
                                                           Frame(listing, relativePath,
                                                                 IF entry.kind = "dir"
                                                                 THEN Append(top.real,
                                                                             entry.name)
                                                                 ELSE entry.target,
                                                                 top.currentDepth + 1))
                          ELSE stack' = advanced
    /\ UNCHANGED <<scanFiles, scanDirs, tree, groups, dpc, scanOptions, built, edited>>
    /\ UNCHANGED <<query, verdict, calls>>
    /\ UNCHANGED undoVars

\* the loop of the innermost scanDirectory call is over: the call returns,
\* and with the outermost call the walk
scanDirectoryReturn ==
    /\ dpc = "walking"
    /\ stack # <<>>
    /\ stack[Len(stack)].from > Len(stack[Len(stack)].listing.entries)
    /\ stack' = SubSeq(stack, 1, Len(stack) - 1)
    /\ dpc' = IF Len(stack) = 1 THEN "walked" ELSE "walking"
    /\ UNCHANGED <<scanFiles, scanDirs, tree, groups, scanOptions, filePaths, built, edited>>
    /\ UNCHANGED <<query, verdict, calls>>
    /\ UNCHANGED undoVars

\* a FileScanner for a directory with links, before its walk
InitSteps ==
    /\ fs = [p \in Paths |-> Absent]
    /\ UndoStart
    /\ tree \in StepRoots
    /\ \E maxDepth \in DepthLimits, followSymlinks \in BOOLEAN :
          scanOptions = [DefaultOptions EXCEPT !.maxDepth = maxDepth,
                                               !.followSymlinks = followSymlinks]
    /\ filePaths = <<>>
    /\ scanFiles = <<>>
    /\ scanDirs = <<>>
    /\ groups = <<>>
    /\ built = <<>>
    /\ edited = <<>>
    /\ MoreIdle
    /\ dpc = "towalk"

NextSteps == walkBegin \/ scanDirectoryStep \/ scanDirectoryReturn

\* the event loop runs a continuation that is ready
SpecSteps == InitSteps /\ [][NextSteps]_vars /\ WF_vars(NextSteps)

\* no depth limit stops the recursion: maxDepth is unset or 0
Unlimited == scanOptions.maxDepth = NoDepth \/ scanOptions.maxDepth[1] = 0

\* a call in progress is scanning the directory that an outer call in
\* progress is scanning too
Reentered ==
    \E i, j \in 1..Len(stack) : i < j /\ stack[i].real = stack[j].real

----------------------------------------------------------------------------
(* A whole run: FileScanner.scan, walk included, then detectDuplicates *)

NextRun == getFilePathsNative \/ scan \/ detectDuplicates

SpecRun == InitWalk /\ [][NextRun]_vars

\* what the walk emitted below the directory it emitted as filePaths[i]: the
\* paths relative to that directory, with kind and file content
VisibleBelow(i) ==
    LET p == filePaths[i].path
    IN  {<<SubSeq(filePaths[k].path, Len(p) + 1, Len(filePaths[k].path)),
           filePaths[k].kind, filePaths[k].content>> :
            k \in {n \in 1..Len(filePaths) :
                      /\ Len(filePaths[n].path) > Len(p)
                      /\ SubSeq(filePaths[n].path, 1, Len(p)) = p}}

\* the scanned directories i and j are members of one folder-based group
GroupedFolders(i, j) ==
    \E g \in 1..Len(groups) :
        /\ groups[g].type = FOLDER_BASED
        /\ \E m \in 1..Len(groups[g].files) : groups[g].files[m].path = i
        /\ \E m \in 1..Len(groups[g].files) : groups[g].files[m].path = j

\* C30: two scanned directories below which the walk emitted the same
\* entries, with the same file contents, are in one folder-based group:
\* what the walk left out has no part in the folder comparison.
C30_FolderPassSeesWhatTheWalkSaw ==
    dpc = "done"
    => \A i \in 1..Len(scanDirs), j \in 1..Len(scanDirs) :
          (i # j /\ VisibleBelow(scanDirs[i].path) = VisibleBelow(scanDirs[j].path))
          => GroupedFolders(scanDirs[i].path, scanDirs[j].path)

====
